---- MODULE Spec2Model ----
(***************************************************************************)
(* RNOR status calculator (rnor_calculator.py).                            *)
(*                                                                         *)
(* The script turns a list of trips abroad and a final return date into a  *)
(* report with one record per financial year (FY, April 1 .. March 31).    *)
(* The model follows the script from the submit branch on: the conversion  *)
(* of the trip fields, the FY generation and the report loop, one loop     *)
(* iteration per step.                                                     *)
(*                                                                         *)
(* Values.  A trip field is a record with a kind: "datetime" is a          *)
(* datetime object, "repr_str" is the text 'datetime.date(Y, M, D)' and    *)
(* "iso_str" is the text 'YYYY-MM-DD' (what str() gives for a date).  A    *)
(* loop local that is either an int or the placeholder "-" is IntVal(n) or *)
(* StrVal("-").  A reason is a record of the format text and its argument. *)
(* The eligibility cell is "Yes" / "No" without the trailing emoji of the  *)
(* source text.                                                            *)
(***************************************************************************)
EXTENDS Integers, Sequences, FiniteSets, TLC

VARIABLES travel_data, final_return_date, pc, start_fy, end_fy, fy_list,
          i, resident_flags, results, nonres_10, stay_7yrs

vars == <<travel_data, final_return_date, pc, start_fy, end_fy, fy_list,
          i, resident_flags, results, nonres_10, stay_7yrs>>

----------------------------------------------------------------------------
(* Bounds and program constants *)

MaxTrips == 2

ResidentDays == 182

NonResYears == 9

StayDaysLimit == 729

Lookback10 == 10

Lookback7 == 7

YearsBefore == 10

YearsAfter == 3

----------------------------------------------------------------------------
(* Values *)

Datetime(y, m, d) == [kind |-> "datetime", y |-> y, m |-> m, d |-> d]

ReprStr(y, m, d) == [kind |-> "repr_str", y |-> y, m |-> m, d |-> d]

IsoStr(y, m, d) == [kind |-> "iso_str", y |-> y, m |-> m, d |-> d]

Trip(dep, ret) == [departure |-> dep, return |-> ret]

IntVal(n) == [type |-> "int", val |-> n]

StrVal(s) == [type |-> "str", str |-> s]

IsInt(v) == v.type = "int"

IsDatetime(v) == v.kind = "datetime"

Max(a, b) == IF a >= b THEN a ELSE b

Min(a, b) == IF a <= b THEN a ELSE b

----------------------------------------------------------------------------
(* Calendar arithmetic of datetime: proleptic Gregorian ordinals *)

IsLeap(y) == (y % 4 = 0) /\ ((y % 100 # 0) \/ (y % 400 = 0))

DaysBeforeYear(y) ==
    LET p == y - 1 IN p * 365 + (p \div 4) - (p \div 100) + (p \div 400)

DaysInMonth(y, m) ==
    IF m = 2 THEN (IF IsLeap(y) THEN 29 ELSE 28)
    ELSE IF m \in {4, 6, 9, 11} THEN 30 ELSE 31

RECURSIVE DaysBeforeMonth(_, _)
DaysBeforeMonth(y, m) ==
    IF m = 1 THEN 0 ELSE DaysBeforeMonth(y, m - 1) + DaysInMonth(y, m - 1)

ToOrdinal(dt) == DaysBeforeYear(dt.y) + DaysBeforeMonth(dt.y, dt.m) + dt.d

\* (a - b).days for two datetimes at midnight
DaysBetween(a, b) == ToOrdinal(a) - ToOrdinal(b)

----------------------------------------------------------------------------
(* Helper functions *)

safe_date_parse(date_str) ==
    IF date_str.kind = "repr_str"
    THEN Datetime(date_str.y, date_str.m, date_str.d)
    ELSE date_str

Last2(n) == n % 100

FYLabel(y) == [prefix |-> "FY", year |-> y, suffix |-> Last2(y + 1)]

\* variant: range(start_year, end_year), the last year left out
fy_range_ExclusiveEnd(start_year, end_year) ==
    IF end_year <= start_year THEN << >>
    ELSE [k \in 1..(end_year - start_year) |-> FYLabel(start_year + k - 1)]

fy_range(start_year, end_year) ==
    IF end_year < start_year THEN << >>
    ELSE [k \in 1..(end_year - start_year + 1) |-> FYLabel(start_year + k - 1)]

\* variant: stay_days > 182
is_resident_Strict(stay_days) == stay_days > ResidentDays

is_resident(stay_days) == stay_days >= ResidentDays

\* variant: the check dep >= ret left out
TripDays_NoOrderCheck(trip, fy_start, fy_end) ==
    LET dep == trip.departure
        ret == trip.return
    IN  IF ~IsDatetime(dep) \/ ~IsDatetime(ret) THEN 0
        ELSE IF ToOrdinal(ret) < ToOrdinal(fy_start)
                \/ ToOrdinal(dep) > ToOrdinal(fy_end) THEN 0
        ELSE LET actual_depart == IF ToOrdinal(dep) >= ToOrdinal(fy_start)
                                  THEN dep ELSE fy_start
                 actual_return == IF ToOrdinal(ret) <= ToOrdinal(fy_end)
                                  THEN ret ELSE fy_end
                 days_outside == DaysBetween(actual_return, actual_depart)
                 fy_days == DaysBetween(fy_end, fy_start)
             IN  Max(fy_days - days_outside, 0)

\* One pass of the body of the loop over travel_data: what a trip adds to
\* total_days.
TripDays(trip, fy_start, fy_end) ==
    LET dep == trip.departure
        ret == trip.return
    IN  IF ~IsDatetime(dep) \/ ~IsDatetime(ret) THEN 0
        ELSE IF ToOrdinal(dep) >= ToOrdinal(ret) THEN 0
        ELSE IF ToOrdinal(ret) < ToOrdinal(fy_start)
                \/ ToOrdinal(dep) > ToOrdinal(fy_end) THEN 0
        ELSE LET actual_depart == IF ToOrdinal(dep) >= ToOrdinal(fy_start)
                                  THEN dep ELSE fy_start
                 actual_return == IF ToOrdinal(ret) <= ToOrdinal(fy_end)
                                  THEN ret ELSE fy_end
                 days_outside == DaysBetween(actual_return, actual_depart)
                 fy_days == DaysBetween(fy_end, fy_start)
             IN  Max(fy_days - days_outside, 0)

RECURSIVE SumTripDays(_, _, _, _)
SumTripDays(trips, k, fy_start, fy_end) ==
    IF k > Len(trips) THEN 0
    ELSE TripDays(trips[k], fy_start, fy_end)
         + SumTripDays(trips, k + 1, fy_start, fy_end)

calc_days_in_india(trips, fy_start, fy_end) ==
    SumTripDays(trips, 1, fy_start, fy_end)

RECURSIVE CountFalse(_, _)
CountFalse(flags, k) ==
    IF k > Len(flags) THEN 0
    ELSE (IF flags[k] = FALSE THEN 1 ELSE 0) + CountFalse(flags, k + 1)

count_non_resident_years(flags) == CountFalse(flags, 1)

----------------------------------------------------------------------------
(* The report loop *)

\* Window of FY index j (0-based)
FYStart(sfy, j) == Datetime(sfy + j, 4, 1)

FYEnd(sfy, j) == Datetime(sfy + j + 1, 3, 31)

\* flags[lo:hi] of Python for 0 <= lo <= hi <= len
Slice(flags, lo, hi) == [k \in 1..(hi - lo) |-> flags[lo + k]]

Preceding10(flags, idx) == Slice(flags, Max(0, idx - Lookback10), idx)

Preceding7(flags, idx) == Slice(flags, Max(0, idx - Lookback7), idx)

RECURSIVE SumStay(_, _, _, _)
SumStay(trips, sfy, j, hi) ==
    IF j >= hi THEN 0
    ELSE calc_days_in_india(trips, FYStart(sfy, j), FYEnd(sfy, j))
         + SumStay(trips, sfy, j + 1, hi)

\* variant: range(max(0, i-8), i)
Stay7_Window8(trips, sfy, idx) ==
    SumStay(trips, sfy, Max(0, idx - (Lookback7 + 1)), idx)

Stay7(trips, sfy, idx) == SumStay(trips, sfy, Max(0, idx - Lookback7), idx)

NoReason == [fmt |-> "-"]

NonResReason(n) == [fmt |-> "Non-resident in {} of last 10 years", arg |-> n]

StayReason(d) ==
    [fmt |-> "Stayed in India only {} days in last 7 years", arg |-> d]

\* variant: the 7-year rule tested before the 10-year rule
Decide_StayRuleFirst(resident, n10, s7) ==
    IF resident /\ IsInt(s7) /\ s7.val <= StayDaysLimit
    THEN [rnor |-> TRUE, rnor_reason |-> StayReason(s7.val)]
    ELSE IF resident /\ IsInt(n10) /\ n10.val >= NonResYears
    THEN [rnor |-> TRUE, rnor_reason |-> NonResReason(n10.val)]
    ELSE [rnor |-> FALSE, rnor_reason |-> NoReason]

\* The pair (rnor, rnor_reason) decided for one FY
Decide(resident, n10, s7) ==
    IF resident /\ IsInt(n10) /\ n10.val >= NonResYears
    THEN [rnor |-> TRUE, rnor_reason |-> NonResReason(n10.val)]
    ELSE IF resident /\ IsInt(s7) /\ s7.val <= StayDaysLimit
    THEN [rnor |-> TRUE, rnor_reason |-> StayReason(s7.val)]
    ELSE [rnor |-> FALSE, rnor_reason |-> NoReason]

Record(fy, resident, days_in_india, dec) ==
    [Financial_Year |-> fy,
     Resident       |-> IF resident THEN "Yes" ELSE "No",
     Days_in_India  |-> days_in_india,
     RNOR_Eligible  |-> IF dec.rnor THEN "Yes" ELSE "No",
     Reason         |-> IF dec.rnor THEN dec.rnor_reason ELSE NoReason]

\* variant: results.insert(0, ...)
AppendResult_Prepend(rs, rec) == << rec >> \o rs

AppendResult(rs, rec) == Append(rs, rec)

AppendFlag(flags, resident) == Append(flags, resident)

----------------------------------------------------------------------------
(* Inputs *)

TripPool ==
    { Trip(Datetime(2013, 1, 1), Datetime(2023, 1, 1)),
      Trip(Datetime(2014, 4, 1), Datetime(2015, 4, 1)),
      Trip(Datetime(2015, 3, 31), Datetime(2015, 4, 1)),
      Trip(Datetime(2016, 3, 31), Datetime(2016, 4, 1)),
      Trip(Datetime(2016, 4, 1), Datetime(2016, 9, 30)),
      Trip(Datetime(2017, 4, 1), Datetime(2017, 10, 1)),
      Trip(ReprStr(2023, 6, 1), ReprStr(2023, 6, 2)),
      Trip(Datetime(2016, 9, 30), Datetime(2016, 4, 1)),
      Trip(Datetime(2016, 4, 1), Datetime(2016, 4, 1)),
      Trip(IsoStr(2016, 4, 1), IsoStr(2016, 9, 30)),
      Trip(Datetime(2001, 1, 1), Datetime(2001, 2, 1)) }

FinalReturnDates == { [y |-> 2023, m |-> 6, d |-> 1],
                      [y |-> 2024, m |-> 2, d |-> 10] }

TripLists == UNION { [1..n -> TripPool] : n \in 1..MaxTrips }

Unset == [type |-> "unset"]

----------------------------------------------------------------------------
(* Specification *)

Init ==
    /\ travel_data \in TripLists
    /\ final_return_date \in FinalReturnDates
    /\ pc = "form"
    /\ start_fy = 0
    /\ end_fy = 0
    /\ fy_list = << >>
    /\ i = 0
    /\ resident_flags = << >>
    /\ results = << >>
    /\ nonres_10 = Unset
    /\ stay_7yrs = Unset

\* if submit: convert the trip fields, generate the financial years
Submit ==
    /\ pc = "form"
    /\ travel_data' =
          [k \in 1..Len(travel_data) |->
              Trip(safe_date_parse(travel_data[k].departure),
                   safe_date_parse(travel_data[k].return))]
    /\ start_fy' = final_return_date.y - YearsBefore
    /\ end_fy' = final_return_date.y + YearsAfter
    /\ fy_list' = fy_range(final_return_date.y - YearsBefore,
                           final_return_date.y + YearsAfter)
    /\ resident_flags' = << >>
    /\ results' = << >>
    /\ i' = 0
    /\ pc' = "loop"
    /\ UNCHANGED <<final_return_date, nonres_10, stay_7yrs>>

\* one iteration of: for i, fy in enumerate(fy_list)
Iterate ==
    /\ pc = "loop"
    /\ i < Len(fy_list)
    /\ LET fy == fy_list[i + 1]
           fy_start == FYStart(start_fy, i)
           fy_end == FYEnd(start_fy, i)
           days_in_india == calc_days_in_india(travel_data, fy_start, fy_end)
           resident == is_resident(days_in_india)
           n10 == IF i >= 1
                  THEN IntVal(count_non_resident_years(
                                  Preceding10(resident_flags, i)))
                  ELSE StrVal("-")
           s7 == IF i >= 1
                 THEN IntVal(Stay7(travel_data, start_fy, i))
                 ELSE StrVal("-")
           dec == Decide(resident, n10, s7)
       IN  /\ nonres_10' = n10
           /\ stay_7yrs' = s7
           /\ results' = AppendResult(results,
                             Record(fy, resident, days_in_india, dec))
           /\ resident_flags' = AppendFlag(resident_flags, resident)
    /\ i' = i + 1
    /\ UNCHANGED <<travel_data, final_return_date, pc, start_fy, end_fy,
                   fy_list>>

\* the loop is exhausted: st.dataframe(pd.DataFrame(results))
Display ==
    /\ pc = "loop"
    /\ i = Len(fy_list)
    /\ pc' = "done"
    /\ UNCHANGED <<travel_data, final_return_date, start_fy, end_fy, fy_list,
                   i, resident_flags, results, nonres_10, stay_7yrs>>

Next == Submit \/ Iterate \/ Display

Spec == Init /\ [][Next]_vars

----------------------------------------------------------------------------
(* Vocabulary of the properties *)

NumFYs == YearsBefore + YearsAfter + 1

Started == pc # "form"

Done == pc = "done"

FYLengthDays(sfy, j) == DaysBetween(FYEnd(sfy, j), FYStart(sfy, j))

\* a valid trip: both fields are dates and departure < return
ValidTrip(t) ==
    /\ IsDatetime(t.departure)
    /\ IsDatetime(t.return)
    /\ ToOrdinal(t.departure) < ToOrdinal(t.return)

\* departure >= return, whatever the representation of the two dates
DepartureNotBeforeReturn(t) == ToOrdinal(t.departure) >= ToOrdinal(t.return)

Intersects(t, fy_start, fy_end) ==
    ~(ToOrdinal(t.return) < ToOrdinal(fy_start)
      \/ ToOrdinal(t.departure) > ToOrdinal(fy_end))

AbroadDays(t, fy_start, fy_end) ==
    IF ValidTrip(t) /\ Intersects(t, fy_start, fy_end)
    THEN Min(ToOrdinal(t.return), ToOrdinal(fy_end))
         - Max(ToOrdinal(t.departure), ToOrdinal(fy_start))
    ELSE 0

RECURSIVE DaysAbroad(_, _, _, _)
DaysAbroad(trips, k, fy_start, fy_end) ==
    IF k > Len(trips) THEN 0
    ELSE AbroadDays(trips[k], fy_start, fy_end)
         + DaysAbroad(trips, k + 1, fy_start, fy_end)

ExpectedDaysInIndia(trips, fy_start, fy_end) ==
    Max(DaysBetween(fy_end, fy_start) - DaysAbroad(trips, 1, fy_start, fy_end),
        0)

\* the aggregates of FY index idx, read off the reported records
ReportedNonRes10(idx) ==
    Cardinality({ j \in Max(0, idx - 10)..(idx - 1) :
                     results[j + 1].Resident = "No" })

RECURSIVE SumReportedDays(_, _)
SumReportedDays(j, hi) ==
    IF j >= hi THEN 0
    ELSE results[j + 1].Days_in_India + SumReportedDays(j + 1, hi)

ReportedStay7(idx) == SumReportedDays(Max(0, idx - 7), idx)

----------------------------------------------------------------------------
(* Properties *)

\* C1: for every FY window of the report and the trip list of the run,
\* calc_days_in_india returns max(fyLengthDays - daysAbroad, 0), daysAbroad
\* being the sum of the clipped lengths of the valid intersecting trips.
C1_DaysInIndiaIsLengthMinusAbroad ==
    Started =>
        \A j \in 0..(NumFYs - 1) :
            calc_days_in_india(travel_data, FYStart(start_fy, j),
                               FYEnd(start_fy, j))
              = ExpectedDaysInIndia(travel_data, FYStart(start_fy, j),
                                    FYEnd(start_fy, j))

\* C2: for every FY window, 0 <= daysInIndia <= fyLengthDays.
C2_DaysInIndiaWithinFY ==
    Started =>
        \A j \in 0..(NumFYs - 1) :
            LET v == calc_days_in_india(travel_data, FYStart(start_fy, j),
                                        FYEnd(start_fy, j))
            IN  0 <= v /\ v <= FYLengthDays(start_fy, j)

NoValidTripInReport ==
    \A k \in 1..Len(travel_data) : \A j \in 0..(NumFYs - 1) :
        ~(ValidTrip(travel_data[k])
          /\ Intersects(travel_data[k], FYStart(start_fy, j),
                        FYEnd(start_fy, j)))

\* C3: when no valid trip intersects an evaluated FY, every record has Days in
\* India = fyLengthDays, Resident = Yes and RNOR Eligible = No.
C3_NoTripsAllResident ==
    (Done /\ NoValidTripInReport) =>
        \A k \in 1..Len(results) :
            /\ results[k].Days_in_India = FYLengthDays(start_fy, k - 1)
            /\ results[k].Resident = "Yes"
            /\ results[k].RNOR_Eligible = "No"

ScenarioB ==
    /\ travel_data = << Trip(Datetime(2013, 1, 1), Datetime(2023, 1, 1)) >>
    /\ final_return_date = [y |-> 2023, m |-> 6, d |-> 1]

\* C4: scenario B (one trip 2013-01-01 .. 2023-01-01, final return
\* 2023-06-01): FY 2013-14 .. FY 2022-23 are reported non-resident and
\* FY 2023-24 is reported resident and RNOR eligible by the 10-year rule.
C4_ScenarioB ==
    (Done /\ ScenarioB) =>
        /\ \A k \in 1..10 : results[k].Resident = "No"
        /\ results[11].Financial_Year = FYLabel(2023)
        /\ results[11].Resident = "Yes"
        /\ ReportedNonRes10(10) >= 9
        /\ results[11].RNOR_Eligible = "Yes"
        /\ results[11].Reason = NonResReason(ReportedNonRes10(10))

\* C5: every record follows the precedence-ordered rule: index 0 or a
\* non-resident FY is not eligible with reason "-"; else a non-resident count
\* >= 9 gives the 10-year reason; else cumulative days <= 729 gives the
\* 7-year reason; else not eligible with reason "-".
C5_EligibilityRule ==
    \A k \in 1..Len(results) :
        LET r == results[k]
            idx == k - 1
        IN  IF idx = 0 \/ r.Resident = "No"
            THEN r.RNOR_Eligible = "No" /\ r.Reason = NoReason
            ELSE IF ReportedNonRes10(idx) >= 9
            THEN /\ r.RNOR_Eligible = "Yes"
                 /\ r.Reason = NonResReason(ReportedNonRes10(idx))
            ELSE IF ReportedStay7(idx) <= 729
            THEN /\ r.RNOR_Eligible = "Yes"
                 /\ r.Reason = StayReason(ReportedStay7(idx))
            ELSE r.RNOR_Eligible = "No" /\ r.Reason = NoReason

\* a resident FY with exactly 9 non-resident years before it, where the
\* 7-year rule would qualify too
C5_Witness ==
    \E k \in 2..Len(results) :
        /\ results[k].Resident = "Yes"
        /\ ReportedNonRes10(k - 1) = 9
        /\ ReportedStay7(k - 1) <= 729
        /\ results[k].Reason = NonResReason(9)

\* further cases of C5 that the inputs reach
C5_Count8NotRule2 ==
    \E k \in 2..Len(results) :
        /\ results[k].Resident = "Yes"
        /\ ReportedNonRes10(k - 1) = 8
        /\ results[k].Reason = StayReason(ReportedStay7(k - 1))

C5_Stay729Fires ==
    \E k \in 2..Len(results) :
        /\ results[k].Resident = "Yes"
        /\ ReportedStay7(k - 1) = 729
        /\ results[k].Reason = StayReason(729)

C5_Stay730DoesNotFire ==
    \E k \in 2..Len(results) :
        /\ results[k].Resident = "Yes"
        /\ ReportedStay7(k - 1) = 730
        /\ results[k].RNOR_Eligible = "No"

\* C6: the finished report has exactly 14 records; record i is the record of
\* the FY from April 1 of year finalReturnDate.year - 10 + i to March 31 of
\* the next year, so the records are in increasing FY order.
C6_FourteenRecordsInOrder ==
    Done =>
        /\ Len(results) = 14
        /\ \A k \in 1..Len(results) :
              LET y == final_return_date.y - 10 + (k - 1)
              IN  /\ results[k].Financial_Year = FYLabel(y)
                  /\ results[k].Days_in_India =
                        calc_days_in_india(travel_data, Datetime(y, 4, 1),
                                           Datetime(y + 1, 3, 31))
        /\ \A k \in 1..(Len(results) - 1) :
              results[k].Financial_Year.year
                < results[k + 1].Financial_Year.year

C6_Witness ==
    /\ Done
    /\ Len(results) = 14
    /\ \E k \in 1..Len(results) : results[k].Days_in_India > 0

RemoveInvalid(trips) ==
    SelectSeq(trips, LAMBDA t : ~DepartureNotBeforeReturn(t))

\* C7: trips with departure >= return are excluded: for every FY window,
\* calc_days_in_india gives the same value with and without them.
C7_InvalidTripsExcluded ==
    Started =>
        \A j \in 0..(NumFYs - 1) :
            calc_days_in_india(travel_data, FYStart(start_fy, j),
                               FYEnd(start_fy, j))
              = calc_days_in_india(RemoveInvalid(travel_data),
                                   FYStart(start_fy, j), FYEnd(start_fy, j))

\* the trip list holds a trip of two dates with departure >= return that
\* touches an evaluated FY, next to a valid trip that counts in that FY
C7_Witness ==
    /\ Done
    /\ \E k \in 1..Len(travel_data) : \E j \in 0..(NumFYs - 1) :
          /\ IsDatetime(travel_data[k].departure)
          /\ IsDatetime(travel_data[k].return)
          /\ DepartureNotBeforeReturn(travel_data[k])
          /\ Intersects(travel_data[k], FYStart(start_fy, j),
                        FYEnd(start_fy, j))
          /\ results[j + 1].Days_in_India > 0

\* C8: in every record Resident is "Yes" exactly when Days in India >= 182.
C8_ResidentIffAtLeast182 ==
    \A k \in 1..Len(results) :
        (results[k].Resident = "Yes") <=> (results[k].Days_in_India >= 182)

\* one report with a 182-day resident FY and a 181-day non-resident FY
C8_Witness ==
    /\ \E k \in 1..Len(results) :
          results[k].Days_in_India = 182 /\ results[k].Resident = "Yes"
    /\ \E k \in 1..Len(results) :
          results[k].Days_in_India = 181 /\ results[k].Resident = "No"

\* C9: after the iteration of an FY index idx >= 1, nonres_10 is the number of
\* non-resident records at indices [max(0, idx-10), idx) and stay_7yrs is the
\* sum of the Days in India reported at indices [max(0, idx-7), idx).
C9_LookbackAggregates ==
    (Started /\ Len(results) >= 2) =>
        LET idx == Len(results) - 1
        IN  /\ nonres_10 = IntVal(ReportedNonRes10(idx))
            /\ stay_7yrs = IntVal(ReportedStay7(idx))

\* a full 10-year window with resident and non-resident years, and days
\* reported both inside and before the 7-year window
C9_Witness ==
    /\ Len(results) >= 12
    /\ LET idx == Len(results) - 1
       IN  /\ nonres_10.val \in 1..9
           /\ stay_7yrs.val > 0
           /\ \E j \in 0..(idx - 8) : results[j + 1].Days_in_India > 0

\* a window shortened at the start of the sequence
C9_ShortWindow ==
    /\ Len(results) \in 2..7
    /\ nonres_10.val = Len(results) - 2
    /\ stay_7yrs.val > 0

FlagsAgree ==
    /\ Len(results) = i
    /\ Len(resident_flags) = i
    /\ \A k \in 1..Len(results) :
          resident_flags[k] <=> (results[k].Resident = "Yes")

AppendOnly ==
    \A k \in 1..Len(results) :
        /\ Len(results') >= k
        /\ results'[k] = results[k]
        /\ Len(resident_flags') >= k
        /\ resident_flags'[k] = resident_flags[k]

\* C10: the report is built by appending only: after each iteration results
\* and resident_flags have one entry per FY done, the flags agree with the
\* Resident fields, and no earlier record or flag ever changes.
C10_SinglePassAppendOnly == [](Started => FlagsAgree) /\ [][AppendOnly]_vars

C10_Witness ==
    /\ pc = "loop"
    /\ i = 5
    /\ \E k \in 1..Len(results) : results[k].Resident = "Yes"
    /\ \E k \in 1..Len(results) : results[k].Resident = "No"

====
